---- MODULE Spec2Model ----
(***************************************************************************)
(* Model of go/chunks/leveldb_store.go: the LevelDB-backed chunk store,    *)
(* and, in a specification of its own (TableSpec), of the table mutation   *)
(* session of go/libraries/doltcore/mvdata/table_data_loc.go.              *)
(*                                                                         *)
(* One physical store (internalLevelDBStore) is constructed either by      *)
(* NewLevelDBStoreFactory, and then shared by the views that CreateStore   *)
(* hands out, or by NewLevelDBStore, and then owned by the single view     *)
(* that call returns.  Byte strings are sequences of byte values.          *)
(*                                                                         *)
(* A panic (d.Chk, a nil dereference, an integer division by zero) ends    *)
(* the call it happens in; the caller may recover it, so the objects stay  *)
(* in the state the panic left them in and later calls are possible.       *)
(* Root, Get, Has, Close, CreateStore and Shutter make at most one engine  *)
(* call and are single steps; UpdateRoot, Put and PutMany are split at     *)
(* their synchronisation points (mutex, write gate).  The statistics       *)
(* counters getCount and hasCount are only printed and are left out.       *)
(***************************************************************************)
EXTENDS Integers, Sequences, FiniteSets, TLC

\* ----------------------------------------------------------------- bounds
NProcs == 2
NViews == 2
MaxCalls == 2
\* history budget of a table mutation session: WriteRow calls, and runs of
\* rows that WriteFreshRows writes in one step
MaxWrites == 3
MaxBulks == 4

Procs == 1..NProcs
ViewIds == 1..NViews

\* ------------------------------------------------------- program constants
\* "/root"
rootKeyConst == <<47, 114, 111, 111, 116>>
\* "/chunk/"
chunkPrefixConst == <<47, 99, 104, 117, 110, 107, 47>>

\* hash.ByteLen: a digest is 20 bytes; hash.StringLen: its base32 text is 32
ByteLen == 20
StringLen == 32

\* ------------------------------------------------------------ hash codec
\* hash.Hash.String(): base32 with the alphabet 0-9a-v, no padding.
Base32Char(i) == IF i < 10 THEN 48 + i ELSE 97 + (i - 10)

Base32Val(c) ==
    IF c >= 48 /\ c <= 57 THEN c - 48
    ELSE IF c >= 97 /\ c <= 118 THEN c - 97 + 10
    ELSE -1

ByteAt(s, i) == IF i >= 1 /\ i <= Len(s) THEN s[i] ELSE 0

HashString(h) ==
    [i \in 1..StringLen |->
        LET bit == 5 * (i - 1)
            b   == bit \div 8
            o   == bit % 8
            w   == ByteAt(h, b + 1) * 256 + ByteAt(h, b + 2)
        IN  Base32Char((w \div (2 ^ (11 - o))) % 32)]

\* hash.MaybeParse accepts exactly ^[0-9a-v]{32}$ ; hash.Parse panics otherwise.
IsHashString(s) ==
    /\ Len(s) = StringLen
    /\ \A i \in 1..Len(s) : Base32Val(s[i]) >= 0

HashParse(s) ==
    [j \in 1..ByteLen |->
        LET bit  == 8 * (j - 1)
            c    == bit \div 5
            o    == bit % 5
            V(k) == IF k <= Len(s) THEN Base32Val(s[k]) ELSE 0
            w    == V(c + 1) * 1024 + V(c + 2) * 32 + V(c + 3)
        IN  (w \div (2 ^ (7 - o))) % 256]

\* ---------------------------------------------------------- snappy codec
\* snappy.Encode of a block shorter than 17 bytes: the uvarint of the length
\* followed by one literal element (tag (n-1)<<2, then the bytes).
SnappyEncode(data) ==
    IF Len(data) = 0 THEN <<0>>
    ELSE <<Len(data), (Len(data) - 1) * 4>> \o data

Corrupt == [ok |-> FALSE, data |-> <<>>]

RECURSIVE Uvarint(_, _, _, _)
Uvarint(src, i, x, shift) ==
    IF i > Len(src) THEN [v |-> 0, n |-> 0]
    ELSE IF src[i] < 128 THEN [v |-> x + src[i] * (2 ^ shift), n |-> i]
    ELSE Uvarint(src, i + 1, x + (src[i] % 128) * (2 ^ shift), shift + 7)

RECURSIVE LittleEndian(_, _, _)
LittleEndian(src, i, n) ==
    IF n = 0 THEN 0 ELSE src[i] + 256 * LittleEndian(src, i + 1, n - 1)

RECURSIVE CopyBack(_, _, _)
CopyBack(out, offset, length) ==
    IF length = 0 THEN out
    ELSE CopyBack(Append(out, out[Len(out) - offset + 1]), offset, length - 1)

\* snappy's decode loop: s is the next byte to read, out the bytes produced.
RECURSIVE DecodeLoop(_, _, _, _)
DecodeLoop(src, s, out, dLen) ==
    IF s > Len(src)
    THEN IF Len(out) = dLen THEN [ok |-> TRUE, data |-> out] ELSE Corrupt
    ELSE
      LET tag == src[s] % 4
          x   == src[s] \div 4
      IN
      IF tag = 0
      THEN
        LET extra  == IF x < 60 THEN 0 ELSE x - 59
            hdrEnd == s + extra
        IN
        IF hdrEnd > Len(src) THEN Corrupt
        ELSE
          LET length == (IF x < 60 THEN x ELSE LittleEndian(src, s + 1, extra)) + 1
          IN
          IF length > dLen - Len(out) \/ length > Len(src) - hdrEnd
          THEN Corrupt
          ELSE DecodeLoop(src, hdrEnd + 1 + length,
                          out \o SubSeq(src, hdrEnd + 1, hdrEnd + length), dLen)
      ELSE
        LET n == IF tag = 1 THEN 2 ELSE IF tag = 2 THEN 3 ELSE 5
        IN
        IF s + n - 1 > Len(src) THEN Corrupt
        ELSE
          LET length == IF tag = 1 THEN 4 + (x % 8) ELSE 1 + x
              offset == IF tag = 1 THEN (src[s] \div 32) * 256 + src[s + 1]
                        ELSE LittleEndian(src, s + 1, n - 1)
          IN
          IF offset <= 0 \/ Len(out) < offset \/ length > dLen - Len(out)
          THEN Corrupt
          ELSE DecodeLoop(src, s + n, CopyBack(out, offset, length), dLen)

SnappyDecode(src) ==
    LET u == Uvarint(src, 1, 0, 0)
    IN  IF u.n = 0 THEN Corrupt ELSE DecodeLoop(src, u.n + 1, <<>>, u.v)

\* ------------------------------------------------------------ the inputs
\* hash.Hash{}: the zero hash
ZeroHash == [i \in 1..ByteLen |-> 0]
H1 == [i \in 1..ByteLen |-> IF i = 1 THEN 200 ELSE i]
\* a digest whose last five bytes spell "/root"
HR == [i \in 1..15 |-> 120] \o rootKeyConst
\* the hashes passed to UpdateRoot, and those passed to Get and Has
RootHashes == {ZeroHash, H1}
ChunkHashes == {H1, HR}

\* chunks: a hash and the bytes it is the hash of
Chunk1 == [h |-> H1, data |-> <<7>>]
ChunkR == [h |-> HR, data |-> <<8, 9>>]
Chunks == {Chunk1, ChunkR}
\* chunks.EmptyChunk = NewChunk([]byte{})
EmptyHash == [i \in 1..ByteLen |-> 255]
EmptyChunk == [h |-> EmptyHash, data |-> <<>>]
Batches == {<<>>, <<Chunk1, ChunkR>>}

\* namespaces
NsA == <<97>>
NsB == NsA \o chunkPrefixConst \o SubSeq(HR, 1, 15)
Namespaces == {NsA, NsB}
\* the capacities the write gate is opened with
HandleLimits == {0, 1}
\* the namespaces of the views a factory has handed out before the first step
InitialViews == {<<>>, <<NsA>>, <<NsA, NsA>>, <<NsA, NsB>>}


\* ------------------------------------------------------------- the state
VARIABLES
    db,                    \* leveldb.DB contents: key -> stored bytes
    dbClosed,              \* leveldb.DB has been closed
    closeCount,            \* number of db.Close() calls made by the store
    mu,                    \* internalLevelDBStore.mu: 0 or the holder
    concurrentWriteLimit,  \* number of tokens in the channel
    maxFileHandles,        \* capacity of the channel
    dumpStats,             \* internalLevelDBStore.dumpStats
    putCount,              \* internalLevelDBStore.putCount
    putBytes,              \* internalLevelDBStore.putBytes
    factory,               \* LevelDBStoreFactory.store: "none", "store", "nil"
    views,                 \* the LevelDBStore objects created so far
    procs,                 \* the goroutines and the call each is in
    lastRet,               \* history: how the latest finished call ended
    nCalls,                \* history: number of calls started
    chunksPut,             \* history: <<chunkPrefix, hash>> of finished puts
    rootsSet               \* history: root keys a successful UpdateRoot wrote

\* the state of the table mutation session (mvdata/table_data_loc.go)
VARIABLES
    te,                    \* the tableEditorWriteCloser
    tableEditor,           \* the SessionedTableEditor and its pending edits
    dEnv,                  \* RepoState roots and the roots DoltDB stores
    twRet,                 \* history: how the latest session call ended
    twHist                 \* history: counts of calls, callbacks, GC passes

ldbVars == <<db, dbClosed, closeCount, mu, concurrentWriteLimit, maxFileHandles,
             dumpStats, putCount, putBytes, factory, views, procs, lastRet,
             nCalls, chunksPut, rootsSet>>

twVars == <<te, tableEditor, dEnv, twRet, twHist>>

vars == <<ldbVars, twVars>>

storeVars == <<db, dbClosed, closeCount, mu, concurrentWriteLimit,
               putCount, putBytes>>

Idle == [pc |-> "idle"]

NoView == [store |-> "none", rootKey |-> <<>>, chunkPrefix |-> <<>>,
           closeBackingStore |-> FALSE]

\* newLevelDBStore: the view's two key prefixes are copies of ns + suffix
copyNsAndAppend(ns, suffix) == ns \o suffix

newLevelDBStore(ns, closeBackingStore) ==
    [store |-> "store",
     rootKey |-> copyNsAndAppend(ns, rootKeyConst),
     chunkPrefix |-> copyNsAndAppend(ns, chunkPrefixConst),
     closeBackingStore |-> closeBackingStore]

\* LevelDBStore.toChunkKey
toChunkKey(v, r) == views[v].chunkPrefix \o r

\* how the latest finished call ended: the operation, whether it panicked,
\* and the boolean or the bytes it returned
Event(op, fault, b, val) == [op |-> op, fault |-> fault, b |-> b, val |-> val]

NoEvent == Event("none", FALSE, FALSE, <<>>)

\* ------------------------------------------ table mutation session: data
\* tableWriterStatUpdateRate = 2 << 15, tableWriterGCRate = 2 << 16
tableWriterStatUpdateRate == 65536
tableWriterGCRate == 131072

\* rows are a primary key and one more field; maps hold a field value per
\* primary key, Absent where the key has no row
PKs == {1, 2}
Vals == {10, 11}
Absent == 0
Rows == [pk : PKs, val : Vals]
EmptyMap == [k \in PKs |-> Absent]
\* row data that the table of an Update session may hold when it starts
InitialMaps == {EmptyMap, [k \in PKs |-> IF k = 1 THEN 10 ELSE Absent]}
\* number of primary-key columns of the schema handed to NewCreatingWriter
PKColCounts == {0, 1}
\* lengths of the runs of rows that WriteFreshRows writes in one step
BulkLens == {tableWriterStatUpdateRate - 1, tableWriterStatUpdateRate}

ZeroStats == [Additions |-> 0, Modifications |-> 0, SameVal |-> 0]

\* a root value: the rows it holds under the modelled keys, and how many
\* rows under other keys
RootValue(name, data, others) == [name |-> name, data |-> data, others |-> others]
NoRoot == RootValue("none", EmptyMap, 0)
WorkingRoot == RootValue("working", EmptyMap, 0)
StagedRoot == RootValue("staged", EmptyMap, 0)
\* a root that nothing refers to any more
OldRoot == RootValue("old", EmptyMap, 0)

\* no tableEditorWriteCloser has been returned
NoSession ==
    [made |-> FALSE, insertOnly |-> FALSE, initialData |-> EmptyMap,
     statsCB |-> FALSE, stats |-> ZeroStats, statOps |-> 0, gcOps |-> 0]

\* no edit session has been created
NoEditor ==
    [made |-> FALSE, data |-> EmptyMap, others |-> 0, inserts |-> 0,
     updates |-> 0]

\* how the latest call on the session ended: the operation, the error it
\* returned ("nil" for none), the row it was given, the statistic it counted
TwEvent(op, err, row, class) == [op |-> op, err |-> err, row |-> row, class |-> class]
NoRow == [pk |-> 0, val |-> 0]
NoTwEvent == TwEvent("none", "nil", NoRow, "none")

NoAnchors == <<NoRoot, NoRoot, NoRoot>>

\* history of a session
NoHist ==
    [writes     |-> 0,          \* WriteRow calls made
     bulks      |-> 0,          \* WriteFreshRows steps made
     snapshot   |-> EmptyMap,   \* row data of the table at session creation
     emitInsert |-> 0,          \* InsertRow calls made on the editor
     emitUpdate |-> 0,          \* UpdateRow calls made on the editor
     callbacks  |-> 0,          \* statsCB calls made from WriteRow
     closeCBs   |-> 0,          \* statsCB calls made from Close
     reported   |-> ZeroStats,  \* statistics the latest statsCB call got
     passes     |-> 0,          \* runs of the gc routine
     gcCalls    |-> 0,          \* DoltDB.GC calls made
     gcErr      |-> "nil",      \* error of the latest run of the gc routine
     anchors    |-> NoAnchors,  \* arguments of the latest DoltDB.GC call
     inProgress |-> NoRoot,     \* the latest in-progress root persisted
     sinceGC    |-> 0,          \* WriteRow calls since the latest gc run
     between    |-> 0,          \* WriteRow calls between the latest two runs
     closes     |-> 0]          \* Close calls made

\* the repository a session is opened on
NewEnv(tableExists, rowData) ==
    [working |-> WorkingRoot, staged |-> StagedRoot,
     stored |-> {WorkingRoot, StagedRoot, OldRoot},
     tableExists |-> tableExists, rowData |-> rowData, tablePut |-> FALSE]

\* the specification of the chunk store has no table mutation session
NoTableWriter ==
    /\ te = NoSession
    /\ tableEditor = NoEditor
    /\ dEnv = NewEnv(FALSE, EmptyMap)
    /\ twRet = NoTwEvent
    /\ twHist = NoHist


\* newBackingStore, then NewLevelDBStoreFactory or NewLevelDBStore
newBackingStore ==
    /\ db = << >>
    /\ dbClosed = FALSE
    /\ closeCount = 0
    /\ mu = 0
    /\ concurrentWriteLimit = 0
    /\ maxFileHandles \in HandleLimits
    /\ dumpStats \in BOOLEAN
    /\ putCount = 0
    /\ putBytes = 0

NewLevelDBStoreFactory ==
    /\ newBackingStore
    /\ factory = "store"
    /\ \E nss \in InitialViews :
          views = [v \in ViewIds |->
                     IF v <= Len(nss) THEN newLevelDBStore(nss[v], FALSE)
                     ELSE NoView]

NewLevelDBStore ==
    /\ newBackingStore
    /\ factory = "none"
    /\ \E ns \in Namespaces :
          views = [v \in ViewIds |->
                     IF v = 1 THEN newLevelDBStore(ns, TRUE) ELSE NoView]

Init ==
    /\ NewLevelDBStoreFactory \/ NewLevelDBStore
    /\ procs = [p \in Procs |-> Idle]
    /\ lastRet = NoEvent
    /\ nCalls = 0
    /\ chunksPut = {}
    /\ rootsSet = {}
    /\ NoTableWriter

Created(v) == views[v].store # "none"
IsNil(v) == views[v].store = "nil"

\* a call may start while the history budget lasts
CanCall == nCalls < MaxCalls

\* goroutines are interchangeable: a new call runs on the first idle one
FirstIdle(p) ==
    /\ procs[p] = Idle
    /\ \A q \in Procs : q < p => procs[q] # Idle


\* ------------------------------------------------- the engine, as it is used
\* db.Put / a one-key write
dbPut(key, val) ==
    [k \in DOMAIN db \cup {key} |-> IF k = key THEN val ELSE db[k]]

\* internalLevelDBStore.rootByKey
rootByKey(key) ==
    IF dbClosed THEN [fault |-> TRUE, h |-> <<>>]
    ELSE IF key \notin DOMAIN db THEN [fault |-> FALSE, h |-> ZeroHash]
    ELSE IF ~IsHashString(db[key]) THEN [fault |-> TRUE, h |-> <<>>]
    ELSE [fault |-> FALSE, h |-> HashParse(db[key])]

\* internalLevelDBStore.getByKey
getByKey(key, ref) ==
    IF dbClosed THEN [fault |-> TRUE, chunk |-> EmptyChunk]
    ELSE IF key \notin DOMAIN db THEN [fault |-> FALSE, chunk |-> EmptyChunk]
    ELSE LET d == SnappyDecode(db[key])
         IN  IF ~d.ok THEN [fault |-> TRUE, chunk |-> EmptyChunk]
             ELSE [fault |-> FALSE, chunk |-> [h |-> ref, data |-> d.data]]

\* internalLevelDBStore.hasByKey
hasByKey(key) ==
    IF dbClosed THEN [fault |-> TRUE, b |-> FALSE]
    ELSE [fault |-> FALSE, b |-> key \in DOMAIN db]

\* internalLevelDBStore.Close panics after db.Close() when the average put
\* size is computed with putCount = 0
internalCloseFaults == dumpStats /\ putCount = 0

\* ------------------------------------------------------ single-step calls
\* LevelDBStoreFactory.CreateStore
CreateStore(ns) ==
    /\ CanCall
    /\ factory # "none"
    /\ nCalls' = nCalls + 1
    /\ IF factory = "nil"
       THEN /\ lastRet' = Event("CreateStore", TRUE, FALSE, <<>>)
            /\ UNCHANGED views
       ELSE /\ \E v \in ViewIds :
                 /\ ~Created(v)
                 /\ \A w \in ViewIds : w < v => Created(w)
                 /\ views' = [views EXCEPT ![v] = newLevelDBStore(ns, FALSE)]
                 /\ lastRet' = Event("CreateStore", FALSE, FALSE, <<>>)
    /\ UNCHANGED <<storeVars, maxFileHandles, dumpStats, factory, procs,
                   chunksPut, rootsSet>>
    /\ UNCHANGED twVars

\* LevelDBStoreFactory.Shutter
Shutter ==
    /\ CanCall
    /\ factory # "none"
    /\ nCalls' = nCalls + 1
    /\ IF factory = "nil"
       THEN /\ lastRet' = Event("Shutter", TRUE, FALSE, <<>>)
            /\ UNCHANGED <<dbClosed, closeCount, factory>>
       ELSE /\ dbClosed' = TRUE
            /\ closeCount' = closeCount + 1
            /\ factory' = IF internalCloseFaults THEN factory ELSE "nil"
            /\ lastRet' = Event("Shutter", internalCloseFaults, FALSE, <<>>)
    /\ UNCHANGED <<db, mu, concurrentWriteLimit, putCount, putBytes,
                   maxFileHandles, dumpStats, views, procs, chunksPut, rootsSet>>
    /\ UNCHANGED twVars

\* LevelDBStore.Close
Close(v) ==
    /\ CanCall
    /\ Created(v)
    /\ nCalls' = nCalls + 1
    /\ IF views[v].closeBackingStore
       THEN IF IsNil(v)
            THEN /\ lastRet' = Event("Close", TRUE, FALSE, <<>>)
                 /\ UNCHANGED <<dbClosed, closeCount, views>>
            ELSE /\ dbClosed' = TRUE
                 /\ closeCount' = closeCount + 1
                 /\ views' = IF internalCloseFaults THEN views
                             ELSE [views EXCEPT ![v].store = "nil"]
                 /\ lastRet' = Event("Close", internalCloseFaults, FALSE, <<>>)
       ELSE /\ views' = [views EXCEPT ![v].store = "nil"]
            /\ lastRet' = Event("Close", FALSE, FALSE, <<>>)
            /\ UNCHANGED <<dbClosed, closeCount>>
    /\ UNCHANGED <<db, mu, concurrentWriteLimit, putCount, putBytes,
                   maxFileHandles, dumpStats, factory, procs, chunksPut, rootsSet>>
    /\ UNCHANGED twVars

\* LevelDBStore.Root
Root(v) ==
    /\ CanCall
    /\ Created(v)
    /\ nCalls' = nCalls + 1
    /\ LET r == rootByKey(views[v].rootKey)
       IN  lastRet' =
             IF IsNil(v)
             THEN Event("Root", TRUE, FALSE, <<>>)
             ELSE Event("Root", r.fault, FALSE, r.h)
    /\ UNCHANGED <<storeVars, maxFileHandles, dumpStats, factory, views, procs,
                   chunksPut, rootsSet>>
    /\ UNCHANGED twVars

\* LevelDBStore.Get
Get(v, ref) ==
    /\ CanCall
    /\ Created(v)
    /\ nCalls' = nCalls + 1
    /\ LET g == getByKey(toChunkKey(v, ref), ref)
       IN  lastRet' =
             IF IsNil(v)
             THEN Event("Get", TRUE, FALSE, <<>>)
             ELSE Event("Get", g.fault, FALSE, g.chunk.data)
    /\ UNCHANGED <<storeVars, maxFileHandles, dumpStats, factory, views, procs,
                   chunksPut, rootsSet>>
    /\ UNCHANGED twVars

\* LevelDBStore.Has
Has(v, ref) ==
    /\ CanCall
    /\ Created(v)
    /\ nCalls' = nCalls + 1
    /\ LET r == hasByKey(toChunkKey(v, ref))
       IN  lastRet' =
             IF IsNil(v)
             THEN Event("Has", TRUE, FALSE, <<>>)
             ELSE Event("Has", r.fault, r.b, <<>>)
    /\ UNCHANGED <<storeVars, maxFileHandles, dumpStats, factory, views, procs,
                   chunksPut, rootsSet>>
    /\ UNCHANGED twVars


\* ------------------------------------------------------------- UpdateRoot
InUpdateRoot(q) == procs[q].pc \in {"ur_lock", "ur_cmp", "ur_put"}

KeyOf(q) == views[procs[q].view].rootKey

\* history: the calls that race with a new UpdateRoot(_, last) on this key:
\* not yet compared, same key, same last, while the persisted root is last
Racers(p, key, last) ==
    {q \in Procs \ {p} :
        /\ procs[q].pc \in {"ur_lock", "ur_cmp"}
        /\ KeyOf(q) = key
        /\ procs[q].last = last
        /\ procs[q].rival = 0
        /\ ~rootByKey(key).fault
        /\ rootByKey(key).h = last}

\* LevelDBStore.UpdateRoot: the nil check, then updateRootByKey is entered
UpdateRoot(p, v, current, last) ==
    /\ CanCall
    /\ Created(v)
    /\ FirstIdle(p)
    /\ nCalls' = nCalls + 1
    /\ IF IsNil(v)
       THEN /\ lastRet' = Event("UpdateRoot", TRUE, FALSE, <<>>)
            /\ UNCHANGED procs
       ELSE LET rs  == Racers(p, views[v].rootKey, last)
                q   == IF rs = {} THEN 0
                       ELSE CHOOSE x \in rs : \A y \in rs : x <= y
                rec == [pc |-> "ur_lock", view |-> v, current |-> current,
                        last |-> last, rival |-> q,
                        rivalOut |-> "none", rivalCur |-> <<>>]
            IN  /\ procs' = [x \in Procs |->
                               IF x = p THEN rec
                               ELSE IF x = q THEN [procs[x] EXCEPT !.rival = p]
                               ELSE procs[x]]
                /\ UNCHANGED lastRet
    /\ UNCHANGED <<storeVars, maxFileHandles, dumpStats, factory, views,
                   chunksPut, rootsSet>>
    /\ UNCHANGED twVars

\* variant: the mutex is not waited for
updateRootLock_nolock(p) ==
    /\ procs[p].pc = "ur_lock"
    /\ mu' = p
    /\ procs' = [procs EXCEPT ![p].pc = "ur_cmp"]
    /\ UNCHANGED <<db, dbClosed, closeCount, concurrentWriteLimit, putCount,
                   putBytes, maxFileHandles, dumpStats, factory, views, lastRet,
                   nCalls, chunksPut, rootsSet>>
    /\ UNCHANGED twVars

\* updateRootByKey: l.mu.Lock()
updateRootLock(p) ==
    /\ procs[p].pc = "ur_lock"
    /\ mu = 0
    /\ mu' = p
    /\ procs' = [procs EXCEPT ![p].pc = "ur_cmp"]
    /\ UNCHANGED <<db, dbClosed, closeCount, concurrentWriteLimit, putCount,
                   putBytes, maxFileHandles, dumpStats, factory, views, lastRet,
                   nCalls, chunksPut, rootsSet>>
    /\ UNCHANGED twVars

\* the return of updateRootByKey (out is "true", "false" or "fault"); the
\* deferred l.mu.Unlock() runs; wrote says that the root key was written
updateRootReturn(p, out, wrote) ==
    /\ mu' = 0
    /\ lastRet' = Event("UpdateRoot", out = "fault", out = "true", <<>>)
    /\ procs' = [q \in Procs |->
                   IF q = p THEN Idle
                   ELSE IF ~InUpdateRoot(q) THEN procs[q]
                   ELSE IF procs[p].rival = q /\ procs[q].rival = p
                        THEN [procs[q] EXCEPT !.rivalOut = out,
                                              !.rivalCur = procs[p].current]
                   ELSE IF wrote /\ KeyOf(q) = KeyOf(p) /\ procs[q].rival # 0
                        THEN [procs[q] EXCEPT !.rival = 0, !.rivalOut = "none",
                                              !.rivalCur = <<>>]
                   ELSE procs[q]]

\* variant: the persisted root is compared with current instead of last
updateRootCompare_current(p) ==
    /\ procs[p].pc = "ur_cmp"
    /\ LET r == rootByKey(KeyOf(p))
       IN  IF r.fault
           THEN updateRootReturn(p, "fault", FALSE)
           ELSE IF procs[p].current # r.h
           THEN updateRootReturn(p, "false", FALSE)
           ELSE /\ procs' = [procs EXCEPT ![p].pc = "ur_put"]
                /\ UNCHANGED <<mu, lastRet>>
    /\ UNCHANGED <<db, dbClosed, closeCount, concurrentWriteLimit, putCount,
                   putBytes, maxFileHandles, dumpStats, factory, views,
                   nCalls, chunksPut, rootsSet>>
    /\ UNCHANGED twVars

\* updateRootByKey: if last != l.rootByKey(key) { return false }
updateRootCompare(p) ==
    /\ procs[p].pc = "ur_cmp"
    /\ LET r == rootByKey(KeyOf(p))
       IN  IF r.fault
           THEN updateRootReturn(p, "fault", FALSE)
           ELSE IF procs[p].last # r.h
           THEN updateRootReturn(p, "false", FALSE)
           ELSE /\ procs' = [procs EXCEPT ![p].pc = "ur_put"]
                /\ UNCHANGED <<mu, lastRet>>
    /\ UNCHANGED <<db, dbClosed, closeCount, concurrentWriteLimit, putCount,
                   putBytes, maxFileHandles, dumpStats, factory, views,
                   nCalls, chunksPut, rootsSet>>
    /\ UNCHANGED twVars

\* updateRootByKey: l.db.Put(key, current.String(), Sync); return true
updateRootPut(p, engineOk) ==
    /\ procs[p].pc = "ur_put"
    /\ IF dbClosed \/ ~engineOk
       THEN /\ updateRootReturn(p, "fault", FALSE)
            /\ UNCHANGED <<db, rootsSet>>
       ELSE /\ db' = dbPut(KeyOf(p), HashString(procs[p].current))
            /\ rootsSet' = rootsSet \cup {KeyOf(p)}
            /\ updateRootReturn(p, "true", TRUE)
    /\ UNCHANGED <<dbClosed, closeCount, concurrentWriteLimit, putCount,
                   putBytes, maxFileHandles, dumpStats, factory, views,
                   nCalls, chunksPut>>
    /\ UNCHANGED twVars

\* -------------------------------------------------------------------- Put
\* LevelDBStore.Put: the nil check, then putByKey is entered
Put(p, v, c) ==
    /\ CanCall
    /\ Created(v)
    /\ FirstIdle(p)
    /\ nCalls' = nCalls + 1
    /\ IF IsNil(v)
       THEN /\ lastRet' = Event("Put", TRUE, FALSE, <<>>)
            /\ UNCHANGED procs
       ELSE /\ procs' = [procs EXCEPT ![p] =
                           [pc |-> "put_acq", view |-> v, chunk |-> c]]
            /\ UNCHANGED lastRet
    /\ UNCHANGED <<storeVars, maxFileHandles, dumpStats, factory, views,
                   chunksPut, rootsSet>>
    /\ UNCHANGED twVars

\* variant: the send does not wait for room in the channel
putByKeyAcquire_nowait(p) ==
    /\ procs[p].pc = "put_acq"
    /\ concurrentWriteLimit' = concurrentWriteLimit + 1
    /\ procs' = [procs EXCEPT ![p].pc = "put_write"]
    /\ UNCHANGED <<db, dbClosed, closeCount, mu, putCount, putBytes,
                   maxFileHandles, dumpStats, factory, views, lastRet, nCalls,
                   chunksPut, rootsSet>>
    /\ UNCHANGED twVars

\* putByKey: l.concurrentWriteLimit <- struct{}{}
putByKeyAcquire(p) ==
    /\ procs[p].pc = "put_acq"
    /\ concurrentWriteLimit < maxFileHandles
    /\ concurrentWriteLimit' = concurrentWriteLimit + 1
    /\ procs' = [procs EXCEPT ![p].pc = "put_write"]
    /\ UNCHANGED <<db, dbClosed, closeCount, mu, putCount, putBytes,
                   maxFileHandles, dumpStats, factory, views, lastRet, nCalls,
                   chunksPut, rootsSet>>
    /\ UNCHANGED twVars

\* putByKey: encode, l.db.Put, count, <-l.concurrentWriteLimit.  A failed
\* write panics in d.Chk.NoError before the token is taken back.
putByKeyWrite(p, engineOk) ==
    /\ procs[p].pc = "put_write"
    /\ LET v    == procs[p].view
           c    == procs[p].chunk
           data == SnappyEncode(c.data)
       IN  IF dbClosed \/ ~engineOk
           THEN /\ lastRet' = Event("Put", TRUE, FALSE, <<>>)
                /\ UNCHANGED <<db, putCount, putBytes, concurrentWriteLimit,
                               chunksPut>>
           ELSE /\ db' = dbPut(toChunkKey(v, c.h), data)
                /\ putCount' = putCount + 1
                /\ putBytes' = putBytes + Len(data)
                /\ concurrentWriteLimit' = concurrentWriteLimit - 1
                /\ chunksPut' = chunksPut \cup {<<views[v].chunkPrefix, c.h>>}
                /\ lastRet' = Event("Put", FALSE, FALSE, <<>>)
    /\ procs' = [procs EXCEPT ![p] = Idle]
    /\ UNCHANGED <<dbClosed, closeCount, mu, maxFileHandles, dumpStats, factory,
                   views, nCalls, rootsSet>>
    /\ UNCHANGED twVars

\* ---------------------------------------------------------------- PutMany
RECURSIVE numBytes(_)
numBytes(chunks) ==
    IF chunks = <<>> THEN 0
    ELSE Len(SnappyEncode(Head(chunks).data)) + numBytes(Tail(chunks))

\* LevelDBStore.PutMany: no nil check; the batch is built, then putBatch is
\* entered, where a nil store is dereferenced
PutMany(p, v, chunks) ==
    /\ CanCall
    /\ Created(v)
    /\ FirstIdle(p)
    /\ nCalls' = nCalls + 1
    /\ IF IsNil(v)
       THEN /\ lastRet' = Event("PutMany", TRUE, FALSE, <<>>)
            /\ UNCHANGED procs
       ELSE /\ procs' = [procs EXCEPT ![p] =
                           [pc |-> "batch_acq", view |-> v, chunks |-> chunks]]
            /\ UNCHANGED lastRet
    /\ UNCHANGED <<storeVars, maxFileHandles, dumpStats, factory, views,
                   chunksPut, rootsSet>>
    /\ UNCHANGED twVars

\* putBatch: l.concurrentWriteLimit <- struct{}{}
putBatchAcquire(p) ==
    /\ procs[p].pc = "batch_acq"
    /\ concurrentWriteLimit < maxFileHandles
    /\ concurrentWriteLimit' = concurrentWriteLimit + 1
    /\ procs' = [procs EXCEPT ![p].pc = "batch_write"]
    /\ UNCHANGED <<db, dbClosed, closeCount, mu, putCount, putBytes,
                   maxFileHandles, dumpStats, factory, views, lastRet, nCalls,
                   chunksPut, rootsSet>>
    /\ UNCHANGED twVars

\* the keys of a batch on a view, and the bytes the batch holds for a key
batchKeys(v, chunks) == {toChunkKey(v, chunks[i].h) : i \in 1..Len(chunks)}

batchValue(v, chunks, k) ==
    LET last == CHOOSE i \in 1..Len(chunks) :
                   /\ toChunkKey(v, chunks[i].h) = k
                   /\ \A j \in 1..Len(chunks) :
                         toChunkKey(v, chunks[j].h) = k => j <= i
    IN  SnappyEncode(chunks[last].data)

\* variant: the chunks are written one by one, so that a failed write leaves
\* the first chunk behind
putBatchWrite_onebyone(p, engineOk) ==
    /\ procs[p].pc = "batch_write"
    /\ LET v      == procs[p].view
           chunks == procs[p].chunks
       IN  IF dbClosed \/ ~engineOk
           THEN /\ lastRet' = Event("PutMany", TRUE, FALSE, <<>>)
                /\ db' = IF chunks = <<>> \/ dbClosed THEN db
                         ELSE dbPut(toChunkKey(v, chunks[1].h),
                                    SnappyEncode(chunks[1].data))
                /\ UNCHANGED <<putCount, putBytes, concurrentWriteLimit,
                               chunksPut>>
           ELSE /\ db' = [k \in DOMAIN db \cup batchKeys(v, chunks) |->
                            IF k \in batchKeys(v, chunks)
                            THEN batchValue(v, chunks, k) ELSE db[k]]
                /\ putCount' = putCount + Len(chunks)
                /\ putBytes' = putBytes + numBytes(chunks)
                /\ concurrentWriteLimit' = concurrentWriteLimit - 1
                /\ chunksPut' = chunksPut \cup
                      {<<views[v].chunkPrefix, chunks[i].h>> : i \in 1..Len(chunks)}
                /\ lastRet' = Event("PutMany", FALSE, FALSE, <<>>)
    /\ procs' = [procs EXCEPT ![p] = Idle]
    /\ UNCHANGED <<dbClosed, closeCount, mu, maxFileHandles, dumpStats, factory,
                   views, nCalls, rootsSet>>
    /\ UNCHANGED twVars

\* putBatch: l.db.Write(b), count, <-l.concurrentWriteLimit
putBatchWrite(p, engineOk) ==
    /\ procs[p].pc = "batch_write"
    /\ LET v      == procs[p].view
           chunks == procs[p].chunks
       IN  IF dbClosed \/ ~engineOk
           THEN /\ lastRet' = Event("PutMany", TRUE, FALSE, <<>>)
                /\ UNCHANGED <<db, putCount, putBytes, concurrentWriteLimit,
                               chunksPut>>
           ELSE /\ db' = [k \in DOMAIN db \cup batchKeys(v, chunks) |->
                            IF k \in batchKeys(v, chunks)
                            THEN batchValue(v, chunks, k) ELSE db[k]]
                /\ putCount' = putCount + Len(chunks)
                /\ putBytes' = putBytes + numBytes(chunks)
                /\ concurrentWriteLimit' = concurrentWriteLimit - 1
                /\ chunksPut' = chunksPut \cup
                      {<<views[v].chunkPrefix, chunks[i].h>> : i \in 1..Len(chunks)}
                /\ lastRet' = Event("PutMany", FALSE, FALSE, <<>>)
    /\ procs' = [procs EXCEPT ![p] = Idle]
    /\ UNCHANGED <<dbClosed, closeCount, mu, maxFileHandles, dumpStats, factory,
                   views, nCalls, rootsSet>>
    /\ UNCHANGED twVars

\* ------------------------------------------------------ the specification
Next ==
    \/ \E ns \in Namespaces : CreateStore(ns)
    \/ Shutter
    \/ \E v \in ViewIds : Close(v)
    \/ \E v \in ViewIds : Root(v)
    \/ \E v \in ViewIds, ref \in ChunkHashes : Get(v, ref)
    \/ \E v \in ViewIds, ref \in ChunkHashes : Has(v, ref)
    \/ \E p \in Procs, v \in ViewIds, current \in RootHashes, last \in RootHashes :
          UpdateRoot(p, v, current, last)
    \/ \E p \in Procs : updateRootLock(p)
    \/ \E p \in Procs : updateRootCompare(p)
    \/ \E p \in Procs, engineOk \in BOOLEAN : updateRootPut(p, engineOk)
    \/ \E p \in Procs, v \in ViewIds, c \in Chunks : Put(p, v, c)
    \/ \E p \in Procs : putByKeyAcquire(p)
    \/ \E p \in Procs, engineOk \in BOOLEAN : putByKeyWrite(p, engineOk)
    \/ \E p \in Procs, v \in ViewIds, chunks \in Batches : PutMany(p, v, chunks)
    \/ \E p \in Procs : putBatchAcquire(p)
    \/ \E p \in Procs, engineOk \in BOOLEAN : putBatchWrite(p, engineOk)

Spec == Init /\ [][Next]_vars

\* a goroutine inside putByKey or putBatch takes its next step when it can:
\* a send on the channel that can proceed does proceed (senders wait in
\* turn, so an acquire that is possible again and again is taken), and the
\* engine write ends
Fairness ==
    \A p \in Procs :
       /\ SF_vars(putByKeyAcquire(p))
       /\ SF_vars(putBatchAcquire(p))
       /\ WF_vars(\E engineOk \in BOOLEAN : putByKeyWrite(p, engineOk))
       /\ WF_vars(\E engineOk \in BOOLEAN : putBatchWrite(p, engineOk))

FairSpec == Init /\ [][Next]_vars /\ Fairness


\* =================================================== table mutation session
\* Model of go/libraries/doltcore/mvdata/table_data_loc.go.  A session is
\* used by one writer, one call after the other, so each call is one step.
\* The editor (InsertRow, UpdateRow, Flush), the repository state and the
\* versioned database (WriteRootValue, GC) are not part of that file; they
\* are modelled from the specification.  Flush and GetSchema, which only
\* hand out a value, are left out.

\* the chunk store takes no part in the specification of the session
NoStore ==
    /\ db = << >>
    /\ dbClosed = FALSE
    /\ closeCount = 0
    /\ mu = 0
    /\ concurrentWriteLimit = 0
    /\ maxFileHandles = 1
    /\ dumpStats = FALSE
    /\ putCount = 0
    /\ putBytes = 0
    /\ factory = "none"
    /\ views = [v \in ViewIds |-> NoView]
    /\ procs = [p \in Procs |-> Idle]
    /\ lastRet = NoEvent
    /\ nCalls = 0
    /\ chunksPut = {}
    /\ rootsSet = {}

TableInit ==
    /\ NoStore
    /\ te = NoSession
    /\ tableEditor = NoEditor
    /\ \E tableExists \in BOOLEAN, rowData \in InitialMaps :
          /\ ~tableExists => rowData = EmptyMap
          /\ dEnv = NewEnv(tableExists, rowData)
    /\ twRet = NoTwEvent
    /\ twHist = NoHist

\* the tableEditorWriteCloser a constructor returns
newSession(insertOnly, m, statsCB) ==
    [made |-> TRUE, insertOnly |-> insertOnly, initialData |-> m,
     statsCB |-> statsCB, stats |-> ZeroStats, statOps |-> 0, gcOps |-> 0]

\* doltdb.CreateTableEditSession(root, ...).GetTableEditor on a table that
\* holds the rows m
newEditor(m) ==
    [made |-> TRUE, data |-> m, others |-> 0, inserts |-> 0, updates |-> 0]

\* the steps of a constructor that can return an error
CtorFails == {"none", "table", "put", "editor"}

\* a constructor returns an error and no session
ctorError(op, err) ==
    /\ twRet' = TwEvent(op, err, NoRow, "none")
    /\ UNCHANGED <<te, twHist>>

\* a constructor returns a session
ctorDone(op, insertOnly, m, statsCB) ==
    /\ te' = newSession(insertOnly, m, statsCB)
    /\ tableEditor' = newEditor(m)
    /\ twHist' = [twHist EXCEPT !.snapshot = m]
    /\ twRet' = TwEvent(op, "nil", NoRow, "none")

\* the tail that NewCreatingWriter and NewReplacingWriter share: new map and
\* table, root.PutTable, edit session, insert-only session on an empty map
putTableAndEdit(op, statsCB, fail) ==
    IF fail \in {"table", "put"}
    THEN /\ ctorError(op, "error")
         /\ UNCHANGED <<tableEditor, dEnv>>
    ELSE /\ dEnv' = [dEnv EXCEPT !.tablePut = TRUE]
         /\ IF fail = "editor"
            THEN /\ ctorError(op, "error")
                 /\ tableEditor' = [tableEditor EXCEPT !.made = TRUE]
            ELSE ctorDone(op, TRUE, EmptyMap, statsCB)

\* NewCreatingWriter with the primary-key check made after the table is put
NewCreatingWriter_latecheck(pkCols, statsCB, fail) ==
    /\ twRet.op = "none"
    /\ IF fail \in {"table", "put"}
       THEN putTableAndEdit("NewCreatingWriter", statsCB, fail)
       ELSE IF pkCols = 0
            THEN /\ dEnv' = [dEnv EXCEPT !.tablePut = TRUE]
                 /\ ctorError("NewCreatingWriter", "ErrNoPK")
                 /\ UNCHANGED tableEditor
            ELSE putTableAndEdit("NewCreatingWriter", statsCB, fail)
    /\ UNCHANGED ldbVars

\* TableDataLocation.NewCreatingWriter
NewCreatingWriter(pkCols, statsCB, fail) ==
    /\ twRet.op = "none"
    /\ IF pkCols = 0
       THEN /\ ctorError("NewCreatingWriter", "ErrNoPK")
            /\ UNCHANGED <<tableEditor, dEnv>>
       ELSE putTableAndEdit("NewCreatingWriter", statsCB, fail)
    /\ UNCHANGED ldbVars

\* TableDataLocation.NewUpdatingWriter
NewUpdatingWriter(statsCB, fail) ==
    /\ twRet.op = "none"
    /\ fail # "put"
    /\ IF fail = "table"
       THEN /\ ctorError("NewUpdatingWriter", "error")
            /\ UNCHANGED tableEditor
       ELSE IF ~dEnv.tableExists
            THEN /\ ctorError("NewUpdatingWriter", "Could not find table")
                 /\ UNCHANGED tableEditor
            ELSE IF fail = "editor"
                 THEN /\ ctorError("NewUpdatingWriter", "error")
                      /\ tableEditor' = [tableEditor EXCEPT !.made = TRUE]
                 ELSE ctorDone("NewUpdatingWriter", FALSE, dEnv.rowData, statsCB)
    /\ UNCHANGED <<dEnv, ldbVars>>

\* TableDataLocation.NewReplacingWriter
NewReplacingWriter(statsCB, fail) ==
    /\ twRet.op = "none"
    /\ IF ~dEnv.tableExists /\ fail # "table"
       THEN /\ ctorError("NewReplacingWriter", "Could not find table")
            /\ UNCHANGED <<tableEditor, dEnv>>
       ELSE putTableAndEdit("NewReplacingWriter", statsCB, fail)
    /\ UNCHANGED ldbVars


\* ---- the editor and the versioned database, from the specification
\* SessionedTableEditor.Flush: the root value with all pending edits applied
Flush == RootValue("table", tableEditor.data, tableEditor.others)

\* SessionedTableEditor.InsertRow / UpdateRow accept the edit of row r
editRow(ed, r, kind) ==
    [ed EXCEPT !.data[r.pk] = r.val,
               !.inserts = IF kind = "insert" THEN @ + 1 ELSE @,
               !.updates = IF kind = "update" THEN @ + 1 ELSE @]

\* DoltDB.GC(w, s, i): what is not reachable from the three roots is removed
GC(stored, w, s, i) == {r \in stored : r \in {w, s, i}}

\* the steps of the gc routine that can return an error
GCFails == {"none", "flush", "write", "gc"}

\* the gc routine, with the roots given in another order to DoltDB.GC and
\* the in-progress root left out
gc_staleAnchors(gcFail) ==
    LET w == dEnv.working
        s == dEnv.staged
        i == Flush
    IN  IF gcFail \in {"flush", "write"}
        THEN [err |-> gcFail, env |-> dEnv, called |-> FALSE,
              anchors |-> NoAnchors, persisted |-> NoRoot]
        ELSE [err |-> IF gcFail = "gc" THEN "gc" ELSE "nil",
              env |-> [dEnv EXCEPT !.stored =
                         IF gcFail = "gc" THEN @ \cup {i}
                         ELSE GC(@ \cup {i}, w, s, s)],
              called |-> TRUE,
              anchors |-> <<w, s, s>>,
              persisted |-> i]

\* tableEditorWriteCloser.gc: the error it returns, the repository after
\* it, whether DoltDB.GC was called and with which roots, and the
\* in-progress root it persisted
gc(gcFail) ==
    LET w == dEnv.working
        s == dEnv.staged
        i == Flush
    IN  IF gcFail \in {"flush", "write"}
        THEN [err |-> gcFail, env |-> dEnv, called |-> FALSE,
              anchors |-> NoAnchors, persisted |-> NoRoot]
        ELSE [err |-> IF gcFail = "gc" THEN "gc" ELSE "nil",
              env |-> [dEnv EXCEPT !.stored =
                         IF gcFail = "gc" THEN @ \cup {i}
                         ELSE GC(@ \cup {i}, w, s, i)],
              called |-> TRUE,
              anchors |-> <<w, s, i>>,
              persisted |-> i]

\* the history after a run of the gc routine with result g
gcHist(h, g) ==
    [h EXCEPT !.passes = @ + 1,
              !.sinceGC = 0,
              !.between = IF h.passes > 0 THEN h.sinceGC ELSE @,
              !.gcErr = g.err,
              !.gcCalls = IF g.called THEN @ + 1 ELSE @,
              !.anchors = IF g.called THEN g.anchors ELSE @,
              !.inProgress = IF g.called THEN g.persisted ELSE @]

\* ---- WriteRow
\* line 242: te.statsCB != nil && statOps >= tableWriterStatUpdateRate
statsDue(t) == t.statsCB /\ t.statOps >= tableWriterStatUpdateRate

\* line 247 with > for >=
gcDue_late(t) == t.gcOps > tableWriterGCRate

\* line 247: gcOps >= tableWriterGCRate
gcDue(t) == t.gcOps >= tableWriterGCRate

\* classification of row r against the rows the editor holds now
rowClass_live(t, r) ==
    IF t.insertOnly \/ tableEditor.data[r.pk] = Absent THEN "add"
    ELSE IF tableEditor.data[r.pk] = r.val THEN "same"
    ELSE "mod"

\* lines 255-283: insert-only sessions add; the others look the primary key
\* up in te.initialData and compare the row found with r
rowClass(t, r) ==
    IF t.insertOnly \/ t.initialData[r.pk] = Absent THEN "add"
    ELSE IF t.initialData[r.pk] = r.val THEN "same"
    ELSE "mod"

\* the statistics with a modification counted as an addition as well
countRow_both(stats, class) ==
    [Additions     |-> stats.Additions + (IF class \in {"add", "mod"} THEN 1 ELSE 0),
     Modifications |-> stats.Modifications + (IF class = "mod" THEN 1 ELSE 0),
     SameVal       |-> stats.SameVal + (IF class = "same" THEN 1 ELSE 0)]

\* lines 257, 270, 278, 282: te.stats.Additions++ / SameVal++ / Modifications++
countRow(stats, class) ==
    [Additions     |-> stats.Additions + (IF class = "add" THEN 1 ELSE 0),
     Modifications |-> stats.Modifications + (IF class = "mod" THEN 1 ELSE 0),
     SameVal       |-> stats.SameVal + (IF class = "same" THEN 1 ELSE 0)]

\* the stats-cadence counter advanced for matches as well
statTick_all(class) == 1

\* lines 256, 269, 281: atomic.AddInt64(&te.statOps, 1), not for a match
statTick(class) == IF class = "same" THEN 0 ELSE 1

\* the steps of WriteRow, after the gc step, that can return an error
RowFails == {"none", "pk", "lookup", "decode", "edit"}

\* the failure is one that the call with row r can meet
CanFail(t, r, fail) ==
    \/ fail = "none"
    \/ fail \in {"pk", "lookup"} /\ ~t.insertOnly
    \/ fail = "decode" /\ ~t.insertOnly /\ t.initialData[r.pk] # Absent
    \/ fail = "edit" /\ rowClass(t, r) # "same"


\* tableEditorWriteCloser.WriteRow
WriteRow(r, fail, gcFail) ==
    /\ te.made
    /\ twHist.closes = 0
    /\ twHist.writes < MaxWrites
    /\ CanFail(te, r, fail)
    /\ gcFail # "none" => gcDue(te)
    /\ LET cb  == statsDue(te)
           t1  == IF cb THEN [te EXCEPT !.statOps = 0] ELSE te
           h1  == [twHist EXCEPT !.writes = @ + 1,
                                 !.callbacks = IF cb THEN @ + 1 ELSE @,
                                 !.reported = IF cb THEN te.stats ELSE @]
           due == gcDue(t1)
           g   == gc(gcFail)
           t2  == IF due THEN [t1 EXCEPT !.gcOps = 0] ELSE t1
           h2  == IF due THEN gcHist(h1, g)
                  ELSE [h1 EXCEPT !.sinceGC = @ + 1]
           t3  == [t2 EXCEPT !.gcOps = @ + 1]
           class == rowClass(t3, r)
       IN  IF due /\ g.err # "nil"
           THEN /\ te' = t2
                /\ dEnv' = g.env
                /\ twHist' = h2
                /\ twRet' = TwEvent("WriteRow", "error", r, "none")
                /\ UNCHANGED tableEditor
           ELSE /\ dEnv' = IF due THEN g.env ELSE dEnv
                /\ IF fail \in {"pk", "lookup", "decode"}
                   THEN /\ te' = t3
                        /\ twHist' = h2
                        /\ twRet' = TwEvent("WriteRow", "error", r, "none")
                        /\ UNCHANGED tableEditor
                   ELSE /\ te' = [t3 EXCEPT !.statOps = @ + statTick(class),
                                            !.stats = countRow(@, class)]
                        /\ twHist' =
                             [h2 EXCEPT
                                !.emitInsert = IF class = "add" THEN @ + 1 ELSE @,
                                !.emitUpdate = IF class = "mod" THEN @ + 1 ELSE @]
                        /\ twRet' = TwEvent("WriteRow",
                                            IF fail = "edit" THEN "error" ELSE "nil",
                                            r, class)
                        /\ tableEditor' =
                             IF class = "same" \/ fail = "edit" THEN tableEditor
                             ELSE editRow(tableEditor, r,
                                          IF class = "add" THEN "insert"
                                          ELSE "update")
    /\ UNCHANGED ldbVars

\* n WriteRow calls in a row, each with a row whose primary key is new to
\* the table and to the session, none of them failing, and none of them
\* starting with a cadence counter at its threshold: each call takes the
\* addition branch (lines 253-258 or 253, 260-271) and nothing else
WriteFreshRows(n) ==
    /\ te.made
    /\ twHist.closes = 0
    /\ twHist.bulks < MaxBulks
    /\ te.gcOps + n <= tableWriterGCRate
    /\ te.statsCB => te.statOps + n <= tableWriterStatUpdateRate
    /\ te' = [te EXCEPT !.gcOps = @ + n,
                        !.statOps = @ + n,
                        !.stats.Additions = @ + n]
    /\ tableEditor' = [tableEditor EXCEPT !.others = @ + n, !.inserts = @ + n]
    /\ twHist' = [twHist EXCEPT !.bulks = @ + 1,
                                !.emitInsert = @ + n,
                                !.sinceGC = @ + n]
    /\ twRet' = TwEvent("WriteFreshRows", "nil", NoRow, "add")
    /\ UNCHANGED <<dEnv, ldbVars>>

\* Close with the callback skipped when the gc routine failed
teClose_quietOnError(gcFail) ==
    /\ te.made
    /\ twHist.closes = 0
    /\ LET g  == gc(gcFail)
           cb == te.statsCB /\ g.err = "nil"
       IN  /\ dEnv' = g.env
           /\ twHist' = [gcHist(twHist, g) EXCEPT
                           !.closes = @ + 1,
                           !.closeCBs = IF cb THEN @ + 1 ELSE @,
                           !.reported = IF cb THEN te.stats ELSE @]
           /\ twRet' = TwEvent("Close", g.err, NoRow, "none")
    /\ UNCHANGED <<te, tableEditor, ldbVars>>

\* tableEditorWriteCloser.Close
teClose(gcFail) ==
    /\ te.made
    /\ twHist.closes = 0
    /\ LET g  == gc(gcFail)
           cb == te.statsCB
       IN  /\ dEnv' = g.env
           /\ twHist' = [gcHist(twHist, g) EXCEPT
                           !.closes = @ + 1,
                           !.closeCBs = IF cb THEN @ + 1 ELSE @,
                           !.reported = IF cb THEN te.stats ELSE @]
           /\ twRet' = TwEvent("Close", g.err, NoRow, "none")
    /\ UNCHANGED <<te, tableEditor, ldbVars>>

TableNext ==
    \/ \E pkCols \in PKColCounts, statsCB \in BOOLEAN, fail \in CtorFails :
          NewCreatingWriter(pkCols, statsCB, fail)
    \/ \E statsCB \in BOOLEAN, fail \in CtorFails : NewUpdatingWriter(statsCB, fail)
    \/ \E statsCB \in BOOLEAN, fail \in CtorFails : NewReplacingWriter(statsCB, fail)
    \/ \E r \in Rows, fail \in RowFails, gcFail \in GCFails : WriteRow(r, fail, gcFail)
    \/ \E n \in BulkLens : WriteFreshRows(n)
    \/ \E gcFail \in GCFails : teClose(gcFail)

TableSpec == TableInit /\ [][TableNext]_vars


\* ================================================================ claims
\* the root persisted under key is h: the stored text is h's, or nothing is
\* stored and h is the zero hash
PersistedRootIs(key, h) ==
    IF key \in DOMAIN db THEN db[key] = HashString(h) ELSE h = ZeroHash

\* p's call returns in this step without a panic
Returns(p) == procs[p] # Idle /\ procs'[p] = Idle /\ ~lastRet'.fault

\* C1: UpdateRoot(current, last) gets past its comparison if and only if the
\* root persisted for the view's namespace is last at that moment; a call
\* that does not get past it returns false and writes nothing; a call that
\* gets past it and returns, returns true and has stored current under the
\* root key, and only that, so that Root() reads current back.
C1_UpdateRootIsCompareAndSwap ==
    [][\A p \in Procs :
         /\ (/\ procs[p].pc = "ur_cmp"
             /\ procs'[p].pc # "ur_cmp"
             /\ ~(procs'[p] = Idle /\ lastRet'.fault))
            => /\ (procs'[p].pc = "ur_put")
                    <=> PersistedRootIs(KeyOf(p), procs[p].last)
               /\ procs'[p] = Idle
                    => /\ lastRet'.op = "UpdateRoot"
                       /\ lastRet'.b = FALSE
                       /\ db' = db
         /\ (procs[p].pc = "ur_put" /\ Returns(p))
            => /\ lastRet'.op = "UpdateRoot"
               /\ lastRet'.b = TRUE
               /\ DOMAIN db' = DOMAIN db \cup {KeyOf(p)}
               /\ db'[KeyOf(p)] = HashString(procs[p].current)
               /\ IsHashString(db'[KeyOf(p)])
               /\ HashParse(db'[KeyOf(p)]) = procs[p].current
               /\ \A k \in DOMAIN db : k # KeyOf(p) => db'[k] = db[k]
      ]_vars

\* C1 witness: an UpdateRoot with a stale last has returned false while the
\* root that an earlier UpdateRoot(H1, zero hash) stored is still H1
C1_Witness ==
    /\ lastRet.op = "UpdateRoot"
    /\ ~lastRet.fault
    /\ ~lastRet.b
    /\ \E v \in ViewIds :
          /\ Created(v)
          /\ views[v].rootKey \in rootsSet
          /\ ~rootByKey(views[v].rootKey).fault
          /\ rootByKey(views[v].rootKey).h = H1

\* the calls inside the read-compare-write section of updateRootByKey
InSection == {p \in Procs : procs[p].pc \in {"ur_cmp", "ur_put"}}

\* q returns from an UpdateRoot that raced with a call that has returned
RaceEnds(q) ==
    /\ InUpdateRoot(q)
    /\ procs[q].rivalOut \in {"true", "false"}
    /\ Returns(q)

\* C2 as stated: of two racing UpdateRoot calls with the same last, equal to
\* the persisted root, exactly one returns true, whatever their currents;
\* and no two calls are inside the read-compare-write section together.
C2_Original ==
    /\ [](Cardinality(InSection) <= 1)
    /\ [][\A q \in Procs :
            RaceEnds(q) => (lastRet'.b # (procs[q].rivalOut = "true"))]_vars

\* C2 as amended: the same, for currents that both differ from last.
C2_ExactlyOneRacerWins ==
    /\ [](Cardinality(InSection) <= 1)
    /\ [][\A q \in Procs :
            (/\ RaceEnds(q)
             /\ procs[q].current # procs[q].last
             /\ procs[q].rivalCur # procs[q].last)
            => (lastRet'.b # (procs[q].rivalOut = "true"))]_vars

\* C2 witness: of two racing calls the first has returned true and the other,
\* holding the mutex, is about to compare
C2_Witness ==
    \E q \in Procs :
       /\ procs[q].pc = "ur_cmp"
       /\ procs[q].rivalOut = "true"
       /\ procs[q].current # procs[q].last
       /\ procs[q].rivalCur # procs[q].last

\* C3: the step in which putBatch writes either leaves the store as it was
\* and the call panics, or makes every chunk of the batch retrievable; so
\* the chunks that were not there before appear all together or not at all.
C3_PutManyIsAllOrNothing ==
    [][\A p \in Procs :
         (procs[p].pc = "batch_write" /\ procs'[p] = Idle)
         => LET v      == procs[p].view
                chunks == procs[p].chunks
                keyOf(i) == views[v].chunkPrefix \o chunks[i].h
                new    == {i \in 1..Len(chunks) : keyOf(i) \notin DOMAIN db}
            IN  /\ lastRet'.op = "PutMany"
                /\ lastRet'.fault => db' = db
                /\ ~lastRet'.fault =>
                     \A i \in 1..Len(chunks) :
                        /\ keyOf(i) \in DOMAIN db'
                        /\ SnappyDecode(db'[keyOf(i)]).ok
                        /\ SnappyDecode(db'[keyOf(i)]).data = chunks[i].data
                /\ \/ \A i \in new : keyOf(i) \in DOMAIN db'
                   \/ \A i \in new : keyOf(i) \notin DOMAIN db'
      ]_vars

\* C3 witness: a PutMany of two chunks has returned and both are stored
C3_Witness ==
    /\ lastRet.op = "PutMany"
    /\ ~lastRet.fault
    /\ \E v \in ViewIds :
          /\ Created(v)
          /\ \A c \in Chunks :
                /\ <<views[v].chunkPrefix, c.h>> \in chunksPut
                /\ toChunkKey(v, c.h) \in DOMAIN db

\* C7: the calls that hold a slot of the write gate, between the send and
\* the receive on concurrentWriteLimit, are never more than maxFileHandles.
C7_WriteGateBound ==
    Cardinality({p \in Procs : procs[p].pc \in {"put_write", "batch_write"}})
       <= maxFileHandles

\* C7 witness: the gate is full, one writer holds a slot and another waits
C7_Witness ==
    /\ maxFileHandles >= 1
    /\ concurrentWriteLimit = maxFileHandles
    /\ \E p, q \in Procs :
          /\ procs[p].pc \in {"put_write", "batch_write"}
          /\ procs[q].pc \in {"put_acq", "batch_acq"}


\* Close() has been called on view v: its store pointer is nil, or it owns
\* the store and the store is closed
CloseCalled(v) ==
    /\ Created(v)
    /\ IsNil(v) \/ (views[v].closeBackingStore /\ dbClosed)

\* this step is a call of Close, Root, Get or Has on view v, which run in
\* one step
CallOn(v) ==
    \/ Close(v)
    \/ Root(v)
    \/ \E ref \in ChunkHashes : Get(v, ref) \/ Has(v, ref)

\* this step is goroutine p's call of UpdateRoot, Put or PutMany on view v
WriteCallOn(p, v) ==
    \/ \E current \in RootHashes, last \in RootHashes :
          UpdateRoot(p, v, current, last)
    \/ \E c \in Chunks : Put(p, v, c)
    \/ \E chunks \in Batches : PutMany(p, v, chunks)

\* C4: once Close() has been called on a view, every call of Root,
\* UpdateRoot, Get, Has, Put, PutMany and Close on it ends in a panic: the
\* call panics at once, or (on a view whose pointer Close left in place) it
\* starts and panics when it ends.
C4_UseAfterCloseFaults ==
    [][\A v \in ViewIds :
         CloseCalled(v) =>
            /\ CallOn(v) => lastRet'.fault
            /\ \A p \in Procs :
                  /\ (IsNil(v) /\ WriteCallOn(p, v))
                        => (lastRet'.fault /\ procs' = procs)
                  /\ (/\ ~IsNil(v)
                      /\ procs[p] # Idle
                      /\ procs'[p] = Idle
                      /\ procs[p].view = v)
                        => lastRet'.fault
      ]_vars

\* C5: Close() on a view that borrows the store leaves the store open,
\* Close() on the view that owns it closes it, and db.Close() is called at
\* most once whatever the sequence of Close and Shutter calls.
C5_StoreClosedByOwnerOnce ==
    [][/\ \A v \in ViewIds :
            Close(v) =>
               IF views[v].closeBackingStore
               THEN IsNil(v) \/ dbClosed'
               ELSE dbClosed' = dbClosed /\ closeCount' = closeCount
       /\ closeCount' <= 1
      ]_vars

\* Shutter() has been called: only Shutter closes the store of a factory
ShutterCalled == factory # "none" /\ dbClosed

\* C6: Shutter closes the store exactly once; after Shutter every
\* CreateStore panics and creates no view, and no Root, UpdateRoot, Get,
\* Has, Put or PutMany on a view of the factory returns.
C6_ShutterInvalidatesFactory ==
    [][/\ Shutter => closeCount' = 1
       /\ ShutterCalled =>
            /\ \A ns \in Namespaces :
                  CreateStore(ns) => (lastRet'.fault /\ views' = views)
            /\ \A p \in Procs :
                  (procs[p] # Idle /\ procs'[p] = Idle) => lastRet'.fault
            /\ \A v \in ViewIds :
                  (Root(v) \/ \E ref \in ChunkHashes : Get(v, ref) \/ Has(v, ref))
                  => lastRet'.fault
      ]_vars

\* C8: while the store is open, every chunk that a finished Put or PutMany
\* stored on a namespace is there (Has) and reads back with its bytes (Get).
C8_PutThenGetRoundTrip ==
    \A e \in chunksPut :
       ~dbClosed =>
          LET key == e[1] \o e[2]
              c   == CHOOSE x \in Chunks : x.h = e[2]
          IN  /\ hasByKey(key) = [fault |-> FALSE, b |-> TRUE]
              /\ getByKey(key, e[2]) = [fault |-> FALSE, chunk |-> c]

\* C9: on an open view of an open store, Has and Get of a hash that was not
\* written to the namespace return false and the empty chunk, and Root() of
\* a namespace whose root no UpdateRoot has set returns the zero hash; none
\* of them panics.
C9_AbsenceBySentinel ==
    [][\A v \in ViewIds :
         (Created(v) /\ ~IsNil(v) /\ ~dbClosed) =>
            /\ \A ref \in ChunkHashes :
                  <<views[v].chunkPrefix, ref>> \notin chunksPut =>
                     /\ Has(v, ref) => (~lastRet'.fault /\ ~lastRet'.b)
                     /\ Get(v, ref) =>
                          /\ ~lastRet'.fault
                          /\ getByKey(toChunkKey(v, ref), ref).chunk = EmptyChunk
            /\ views[v].rootKey \notin rootsSet =>
                  (Root(v) => (~lastRet'.fault /\ lastRet'.val = ZeroHash))
      ]_vars

\* what Root, Get and Has return on view w
Observed(w) ==
    [root |-> rootByKey(views[w].rootKey),
     get  |-> [ref \in ChunkHashes |-> getByKey(toChunkKey(w, ref), ref)],
     has  |-> [ref \in ChunkHashes |-> hasByKey(toChunkKey(w, ref))]]

\* C10: a write of UpdateRoot, Put or PutMany on one view changes nothing of
\* what Root, Get and Has return on a view of another namespace.
C10_NamespacesAreIndependent ==
    [][\A p \in Procs :
         (procs[p].pc \in {"ur_put", "put_write", "batch_write"}
            /\ procs'[p] = Idle)
         => \A w \in ViewIds :
               (Created(w) /\ views[w].rootKey # views[procs[p].view].rootKey)
               => Observed(w)' = Observed(w)
      ]_vars


\* ------------------------------------- claims on the table mutation session
\* this step is a WriteRow call
IsWriteRow == twHist'.writes = twHist.writes + 1

\* this step is a WriteRow call that returns without error
WriteRowOk == IsWriteRow /\ twRet'.err = "nil"

\* by how much this step changes a statistic
Delta(f) == te'.stats[f] - te.stats[f]

\* the editor is given no edit in this step
NoEdit ==
    /\ twHist'.emitInsert = twHist.emitInsert
    /\ twHist'.emitUpdate = twHist.emitUpdate
    /\ tableEditor' = tableEditor

\* C11: in an Update session a WriteRow that returns without error changes
\* exactly one statistic, by one: sameValue, with no edit, when the initial
\* map holds the key with an equal row; additions, with an insert, when it
\* does not hold the key; modifications, with an update, when it holds the
\* key with another row.
C11_UpdateModeCountsOneStatistic ==
    [][(WriteRowOk /\ ~te.insertOnly) =>
         LET r   == twRet'.row
             old == te.initialData[r.pk]
         IN  /\ Delta("Additions") + Delta("Modifications") + Delta("SameVal") = 1
             /\ \A f \in {"Additions", "Modifications", "SameVal"} :
                   Delta(f) \in {0, 1}
             /\ old = r.val => (Delta("SameVal") = 1 /\ NoEdit)
             /\ old = Absent =>
                   /\ Delta("Additions") = 1
                   /\ twHist'.emitInsert = twHist.emitInsert + 1
                   /\ twHist'.emitUpdate = twHist.emitUpdate
                   /\ tableEditor'.inserts = tableEditor.inserts + 1
             /\ old \notin {Absent, r.val} =>
                   /\ Delta("Modifications") = 1
                   /\ twHist'.emitUpdate = twHist.emitUpdate + 1
                   /\ twHist'.emitInsert = twHist.emitInsert
                   /\ tableEditor'.updates = tableEditor.updates + 1
      ]_vars

\* C11 witness: an Update session has counted one row of each kind
C11_Witness ==
    /\ te.made
    /\ ~te.insertOnly
    /\ te.stats = [Additions |-> 1, Modifications |-> 1, SameVal |-> 1]
    /\ twHist.writes = 3
    /\ twHist.emitInsert = 1
    /\ twHist.emitUpdate = 1

\* this step calls DoltDB.GC
IsGCCall == twHist'.gcCalls = twHist.gcCalls + 1

\* the anchors are stored: the working root, the staged root and, once
\* DoltDB.GC has been called, the latest in-progress root
AnchorsStored ==
    /\ dEnv.working \in dEnv.stored
    /\ dEnv.staged \in dEnv.stored
    /\ twHist.gcCalls > 0 => twHist.inProgress \in dEnv.stored

\* C12: every DoltDB.GC call of the session, from WriteRow or from Close,
\* gets three roots: the working root, the staged root and the root that
\* the same pass got from Flush and persisted, which holds every row the
\* editor accepted before the pass; and in every state the working root,
\* the staged root and the latest in-progress root are still stored.
C12_GCKeepsThreeAnchors ==
    /\ []AnchorsStored
    /\ [][IsGCCall =>
            /\ twHist'.anchors = <<dEnv.working, dEnv.staged, twHist'.inProgress>>
            /\ twHist'.inProgress \in dEnv'.stored
            /\ twHist'.inProgress.data = tableEditor.data
            /\ twHist'.inProgress.others = tableEditor.others
            /\ twHist'.passes = twHist.passes + 1
         ]_vars

\* C12 witness: DoltDB.GC has run from WriteRow and from Close, it removed
\* the unreferenced root, and the in-progress root holds the rows written
C12_Witness ==
    /\ twHist.gcCalls = 2
    /\ twHist.closes = 1
    /\ twRet.err = "nil"
    /\ OldRoot \notin dEnv.stored
    /\ twHist.inProgress.others >= tableWriterGCRate
    /\ twHist.inProgress.data # EmptyMap
    /\ AnchorsStored

\* this step is a Close call
IsClose == twHist'.closes = twHist.closes + 1

\* C13: Close runs the gc routine once, then calls the stats callback once
\* with the cumulative statistics if the session has a callback and not at
\* all if it has none, whether or not the gc routine failed, and returns
\* the error of that run of the gc routine (nil when it succeeded).
C13_CloseRunsGCThenCallback ==
    [][IsClose =>
         /\ twHist'.passes = twHist.passes + 1
         /\ twHist'.closeCBs = twHist.closeCBs + (IF te.statsCB THEN 1 ELSE 0)
         /\ twHist'.callbacks = twHist.callbacks
         /\ te.statsCB => twHist'.reported = te.stats
         /\ te' = te
         /\ twRet'.op = "Close"
         /\ twRet'.err = twHist'.gcErr
         /\ twRet'.err = "nil" =>
               /\ twHist'.gcCalls = twHist.gcCalls + 1
               /\ twHist'.inProgress \in dEnv'.stored
      ]_vars

\* C13 witness: Close of a session with a callback whose gc routine failed
\* has called the callback with the statistics of the rows written
C13_Witness ==
    /\ twHist.closes = 1
    /\ twRet.op = "Close"
    /\ twRet.err # "nil"
    /\ twHist.closeCBs = 1
    /\ twHist.passes = 1
    /\ twHist.reported = te.stats
    /\ te.stats.Additions > 0

\* C14: NewCreatingWriter on a schema without primary-key columns returns
\* ErrNoPK and nothing else happens: no session is returned, no table is
\* put, no edit session is created, and afterwards no row is written.
C14_CreateWithoutPKFailsFirst ==
    /\ [][(\E statsCB \in BOOLEAN, fail \in CtorFails :
              NewCreatingWriter(0, statsCB, fail)) =>
            /\ twRet'.err = "ErrNoPK"
            /\ ~te'.made
            /\ te' = te
            /\ tableEditor' = tableEditor
            /\ dEnv' = dEnv
            /\ twHist' = twHist
         ]_vars
    /\ [](twRet.err = "ErrNoPK" =>
            /\ ~te.made
            /\ ~tableEditor.made
            /\ ~dEnv.tablePut
            /\ twHist = NoHist)

\* C14 witness: NewCreatingWriter has returned ErrNoPK
C14_Witness ==
    /\ twRet.op = "NewCreatingWriter"
    /\ twRet.err = "ErrNoPK"
    /\ ~te.made
    /\ ~dEnv.tablePut

\* this step calls internalLevelDBStore.Close
IsStoreClose == closeCount' = closeCount + 1

\* C15: internalLevelDBStore.Close of a store opened with dumpStats set
\* returns without a panic after every history of calls, also one with no
\* put.
C15_CloseWithStatsNeverFaults ==
    [][(IsStoreClose /\ dumpStats) => ~lastRet'.fault]_vars

\* the statistic that a row counts for against the map m
ClassAgainst(m, r) ==
    IF m[r.pk] = Absent THEN "add"
    ELSE IF m[r.pk] = r.val THEN "same"
    ELSE "mod"

\* C16: in an Update session the map that rows are looked up in is the row
\* data the table held when the session was created, whatever was written
\* since, and a WriteRow that returns without error counts and emits what
\* the row is against that map: an addition and an insert for a key the
\* map does not hold (also when the session wrote that key before), a
\* match and no edit for a row equal to the one the map holds (also when
\* the session changed that key before), else a modification and an update.
C16_ClassifiedAgainstInitialSnapshot ==
    /\ []((te.made /\ ~te.insertOnly) => te.initialData = twHist.snapshot)
    /\ [][(te.made => twHist'.snapshot = twHist.snapshot) /\
          ((WriteRowOk /\ ~te.insertOnly) =>
             LET class == ClassAgainst(twHist.snapshot, twRet'.row)
             IN  /\ twRet'.class = class
                 /\ Delta("Additions") = (IF class = "add" THEN 1 ELSE 0)
                 /\ Delta("Modifications") = (IF class = "mod" THEN 1 ELSE 0)
                 /\ Delta("SameVal") = (IF class = "same" THEN 1 ELSE 0)
                 /\ twHist'.emitInsert - twHist.emitInsert
                       = (IF class = "add" THEN 1 ELSE 0)
                 /\ twHist'.emitUpdate - twHist.emitUpdate
                       = (IF class = "mod" THEN 1 ELSE 0)
                 /\ class = "same" => tableEditor' = tableEditor)
         ]_vars

\* C16 witness: an Update session was given a key that the table did not
\* hold and wrote it, it changed another key, and then it was given the row
\* the table held at first for that key and counted it as a match
C16_Witness ==
    /\ te.made
    /\ ~te.insertOnly
    /\ twRet.op = "WriteRow"
    /\ twRet.err = "nil"
    /\ twRet.class = "same"
    /\ te.initialData[twRet.row.pk] = twRet.row.val
    /\ tableEditor.data[twRet.row.pk] # twRet.row.val
    /\ te.stats = [Additions |-> 1, Modifications |-> 1, SameVal |-> 1]
    /\ te.initialData[2] = Absent
    /\ tableEditor.data[2] # Absent
    /\ twHist.emitInsert = 1
    /\ twHist.emitUpdate = 1

\* this step is a run of WriteRow calls on fresh rows
IsWriteFreshRows == twHist'.bulks = twHist.bulks + 1

\* this step runs the gc routine
IsGCPass == twHist'.passes = twHist.passes + 1

\* C17: a WriteRow call runs the gc routine exactly when gcOps is at or
\* above tableWriterGCRate when the call starts; the counter is then set to
\* zero, and when the gc routine fails the call returns the error with the
\* counter at zero, no row counted and no edit made; every call that gets
\* past that step adds one to the counter, whatever the row turns out to
\* be; and no more than tableWriterGCRate WriteRow calls are made between
\* two runs of the gc routine that follow each other.
C17_GCCadence ==
    /\ [][/\ IsWriteRow =>
               LET due    == te.gcOps >= tableWriterGCRate
                   failed == due /\ twHist'.gcErr # "nil"
               IN  /\ IsGCPass <=> due
                   /\ ~due => twHist'.passes = twHist.passes
                   /\ failed =>
                         /\ te'.gcOps = 0
                         /\ twRet'.err # "nil"
                         /\ te'.stats = te.stats
                         /\ NoEdit
                   /\ ~failed =>
                         te'.gcOps = (IF due THEN 0 ELSE te.gcOps) + 1
           /\ IsWriteFreshRows =>
               /\ ~IsGCPass
               /\ te'.gcOps > te.gcOps
               /\ te'.gcOps - 1 < tableWriterGCRate
               /\ te'.gcOps - te.gcOps = twHist'.sinceGC - twHist.sinceGC
         ]_vars
    /\ [](/\ twHist.between <= tableWriterGCRate
          /\ twHist.sinceGC <= tableWriterGCRate
          /\ te.gcOps <= tableWriterGCRate)

\* C17 witness: two runs of the gc routine from WriteRow, the first of
\* which failed, with tableWriterGCRate WriteRow calls between them
C17_Witness ==
    /\ twHist.passes = 2
    /\ twHist.closes = 0
    /\ twHist.between = tableWriterGCRate
    /\ twHist.gcErr = "nil"
    /\ twRet.op = "WriteRow"
    /\ twRet.err = "nil"
    /\ te.gcOps = 1

\* this step calls the stats callback from WriteRow
IsCallback == twHist'.callbacks = twHist.callbacks + 1

\* additions and modifications of some statistics
Edits(stats) == stats.Additions + stats.Modifications

\* C18: WriteRow calls the stats callback exactly when the session has one
\* and statOps is at or above tableWriterStatUpdateRate when the call
\* starts, and then sets the counter to zero; the counter advances by one
\* with every addition and modification counted and by nothing else; the
\* k-th callback made from WriteRow reports additions + modifications =
\* k * tableWriterStatUpdateRate; a session without callback makes none.
C18_StatsCadence ==
    /\ [][/\ IsWriteRow =>
               LET cb == te.statsCB /\ te.statOps >= tableWriterStatUpdateRate
               IN  /\ IsCallback <=> cb
                   /\ ~cb => /\ twHist'.callbacks = twHist.callbacks
                             /\ twHist'.reported = twHist.reported
                   /\ cb => /\ twHist'.reported = te.stats
                            /\ Edits(twHist'.reported)
                                  = twHist'.callbacks * tableWriterStatUpdateRate
                   /\ te'.statOps = (IF cb THEN 0 ELSE te.statOps)
                                      + Edits(te'.stats) - Edits(te.stats)
                   /\ Delta("SameVal") = 1 =>
                         te'.statOps = (IF cb THEN 0 ELSE te.statOps)
           /\ IsWriteFreshRows =>
               /\ ~IsCallback
               /\ te.statsCB => te'.statOps - 1 < tableWriterStatUpdateRate
               /\ te'.statOps - te.statOps = Edits(te'.stats) - Edits(te.stats)
         ]_vars
    /\ [](/\ ~te.statsCB => (twHist.callbacks = 0 /\ twHist.closeCBs = 0)
          /\ te.statsCB =>
                /\ te.statOps <= tableWriterStatUpdateRate
                /\ Edits(te.stats)
                      = twHist.callbacks * tableWriterStatUpdateRate + te.statOps)

\* C18 witness: the second callback from WriteRow, in an Update session
\* that counted a match and a modification as well as additions
C18_Witness ==
    /\ te.statsCB
    /\ ~te.insertOnly
    /\ twHist.callbacks = 2
    /\ twHist.closes = 0
    /\ Edits(twHist.reported) = 2 * tableWriterStatUpdateRate
    /\ twHist.reported.SameVal = 1
    /\ twHist.reported.Modifications = 1

\* C19: a WriteRow call that returns an error leaves the editor and the
\* three statistics as they were, so that in every state additions +
\* modifications is the number of inserts and updates the editor accepted.
C19_NoPartialSuccess ==
    /\ [][(IsWriteRow /\ twRet'.err # "nil") =>
            /\ tableEditor' = tableEditor
            /\ te'.stats = te.stats
         ]_vars
    /\ [](te.made =>
            Edits(te.stats) = tableEditor.inserts + tableEditor.updates)

\* goroutine p is inside putByKey or putBatch
InPut(p) == procs[p].pc \in {"put_acq", "put_write", "batch_acq", "batch_write"}

\* every goroutine that enters putByKey or putBatch leaves it
PutsReturn == \A p \in Procs : InPut(p) ~> ~InPut(p)

\* while no goroutine is inside putByKey or putBatch the channel is empty
SlotsFreeWhenQuiet == (\A p \in Procs : ~InPut(p)) => concurrentWriteLimit = 0

\* C20: for every capacity newBackingStore takes, every goroutine that
\* enters putByKey or putBatch gets a slot and returns, and every slot taken
\* is given back when the call ends, with or without a panic, so that the
\* channel is empty whenever no put is in flight.
C20_WriteGateLiveAndConserved == PutsReturn /\ []SlotsFreeWhenQuiet

====
